---- MODULE Spec2Model ----
(***************************************************************************)
(* Model of the install_req block of nengo-dl's setup.py template: the     *)
(* choice of the TensorFlow distribution to require (tf_req) and the       *)
(* assembly of the install_req list.                                       *)
(*                                                                         *)
(* Two renderings of the block are in the repository:                      *)
(*   "setup.py.template"  src/.templates/setup.py.template (five           *)
(*                        candidates, isolated-build marker search)        *)
(*   "part_000"           src/unnamed/part_000 (three candidates, global   *)
(*                        working set)                                     *)
(* Strings are TLA+ strings; Python's str operations (in, index, slicing)  *)
(* are modelled character by character with Len and SubSeq.                *)
(***************************************************************************)
EXTENDS Integers, Sequences, FiniteSets, TLC

VARIABLES
    template,        \* which rendering of the block is executed
    argv,            \* sys.argv
    sys_path,        \* sys.path
    site,            \* the file system: directory |-> project names found in it
    working_set,     \* pkg_resources.working_set as a list of project names
                     \* (UnsetList while pkg_resources is not imported)
    pc,              \* position in the block
    i,               \* position of the `for path in sys.path` loop (1-based)
    source_path,     \* source_path (UnsetList until assigned)
    installed_dists, \* installed_dists (UnsetList until assigned)
    k,               \* position of the `for d in [...]` loop (1-based)
    tf_req,          \* tf_req (Unset until assigned)
    install_req,     \* install_req (UnsetList until assigned)
    error,           \* the exception that ended the block, or NoError
    assigns,         \* history: number of assignments to tf_req so far
    queries,         \* history: number of WorkingSet(source_path) queries issued so far
    import_queries,  \* history: number of listings of sys.path made by the import
    scans            \* history: number of sys.path entries tested for the marker

vars == <<template, argv, sys_path, site, working_set, pc, i, source_path, installed_dists,
          k, tf_req, install_req, error, assigns, queries, import_queries, scans>>

\* bounds of the model
MaxPath == 2
MaxDists == 3
MaxArgs == 2

\* the value of a str variable that is not bound yet
Unset == "<unset>"

\* the value of a list variable that is not bound yet
UnsetList == <<Unset>>
NoError == "<none>"

-----------------------------------------------------------------------------
(* Python string and list primitives                                         *)

\* s[:n] for 0 <= n
Slice(s, n) == SubSeq(s, 1, IF n < Len(s) THEN n ELSE Len(s))

\* s.find(sub): the least 0-based offset at which sub occurs in s, or -1
Find(sub, s) ==
    LET hits == {n \in 0..(Len(s) - Len(sub)) : SubSeq(s, n + 1, n + Len(sub)) = sub}
    IN  IF hits = {} THEN -1 ELSE CHOOSE n \in hits : \A m \in hits : n <= m

\* `sub in s` for two str
StrContains(sub, s) == Find(sub, s) # -1

In_StartsWith(x, lst) == \E n \in 1..Len(lst) : Slice(lst[n], Len(x)) = x

In_Substring(x, lst) == \E n \in 1..Len(lst) : Find(x, lst[n]) # -1

\* `x in lst` for a list: equality with some element
In(x, lst) == \E n \in 1..Len(lst) : lst[n] = x

\* os.path.join(a, b) for a non-empty relative b (POSIX separator)
PathJoin(a, b) == IF a = "" \/ SubSeq(a, Len(a), Len(a)) = "/" THEN a \o b ELSE a \o "/" \o b

\* "%s>=2.0.0" % name
Fmt(name, bound) == name \o bound

\* all sequences over S of length at most n
RECURSIVE SeqsUpTo(_, _)
SeqsUpTo(S, n) ==
    IF n = 0 THEN {<<>>}
    ELSE LET shorter == SeqsUpTo(S, n - 1)
         IN  shorter \cup {Append(s, x) : s \in {t \in shorter : Len(t) = n - 1}, x \in S}

-----------------------------------------------------------------------------
(* The constants of the block                                                *)

WheelToken == "bdist_wheel"

WheelReq_Gpu == "tensorflow-gpu"

\* the requirement of the wheel branch
WheelReq == "tensorflow"

Default_Cpu == "tensorflow-cpu"

\* the requirement of the `else:` of the candidate loop
Default == "tensorflow"

\* the candidate list of setup.py.template
Candidates == <<"tf-nightly-gpu", "tf-nightly", "tf-nightly-cpu", "tensorflow-gpu", "tensorflow-cpu">>

\* the candidate list of part_000
tf_dists == <<"tf-nightly-gpu", "tf-nightly", "tensorflow-gpu">>

CandidatesOf(t) == IF t = "part_000" THEN tf_dists ELSE Candidates

target_path == PathJoin("site-packages", "pip")

Manifest_Double(t, req) ==
    IF t = "part_000"
    THEN <<"nengo>=2.8.0", "numpy>=1.14.5", Fmt(req, ">=2.0.0b1"), "progressbar2>=3.39.0">>
    ELSE <<"nengo>=3.0.0", "numpy>=1.16.0", "tensorflow>=2.0.0", Fmt(req, ">=2.0.0"),
           "jinja2>=2.10.1", "packaging>=20.0", "progressbar2>=3.39.0">>

\* the install_req list of each rendering
Manifest(t, req) ==
    IF t = "part_000"
    THEN <<"nengo>=2.8.0", "numpy>=1.14.5", Fmt(req, ">=2.0.0b1"), "progressbar2>=3.39.0">>
    ELSE <<"nengo>=3.0.0", "numpy>=1.16.0", Fmt(req, ">=2.0.0"), "jinja2>=2.10.1",
           "packaging>=20.0", "progressbar2>=3.39.0">>

-----------------------------------------------------------------------------
(* The environment                                                           *)

\* a directory named with or without a trailing separator is the same directory
NormDir(p) == IF Len(p) > 1 /\ SubSeq(p, Len(p), Len(p)) = "/" THEN SubSeq(p, 1, Len(p) - 1) ELSE p

\* project names of the distributions found in directory p
DistsAt(fs, p) == IF NormDir(p) \in DOMAIN fs THEN fs[NormDir(p)] ELSE <<>>

\* the project names that distributions of the model have
DistNames == {
    "tf-nightly-gpu", "tf-nightly", "tf-nightly-cpu", "tensorflow-gpu", "tensorflow-cpu",
    "tensorflow", "numpy", "TensorFlow-GPU" }

\* str.lower() on the ASCII letters
LowerChar(c) ==
    LET n == Find(c, "ABCDEFGHIJKLMNOPQRSTUVWXYZ")
    IN  IF n = -1 THEN c ELSE SubSeq("abcdefghijklmnopqrstuvwxyz", n + 1, n + 1)

RECURSIVE Lower(_)
Lower(s) == IF Len(s) = 0 THEN "" ELSE LowerChar(SubSeq(s, 1, 1)) \o Lower(SubSeq(s, 2, Len(s)))

\* Distribution.key: the project name in lower case
Key(name) == Lower(name)

\* the keys of the project names of the model, computed once
KeyOf == [name \in DistNames |-> Key(name)]

\* the distributions found on each entry, in entry order
RECURSIVE FoundOn(_, _)
FoundOn(fs, entries) ==
    IF entries = <<>> THEN <<>>
    ELSE DistsAt(fs, Head(entries)) \o FoundOn(fs, Tail(entries))

\* WorkingSet.add: a distribution whose key is already in the set is dropped
RECURSIVE AddAll(_, _, _)
AddAll(kept, keys, found) ==
    IF found = <<>> THEN kept
    ELSE IF KeyOf[Head(found)] \in keys
         THEN AddAll(kept, keys, Tail(found))
         ELSE AddAll(Append(kept, Head(found)), keys \cup {KeyOf[Head(found)]}, Tail(found))

\* [d.project_name for d in pkg_resources.WorkingSet(entries)]: one
\* distribution per key, the first found in entry order
WorkingSet(fs, entries) == AddAll(<<>>, {}, FoundOn(fs, entries))

Templates == {"setup.py.template", "part_000"}

ArgTokens == {"setup.py", "install", "bdist_wheel", "bdist_wheels"}

PathEntries == {
    "/usr/lib/site-packages",
    "/env/site-packages/pip/_vendor",
    "site-packages/pip",
    "/pip/env/site-packages/pip",
    "/tmp/pip-build-env/site" }

Dirs == {
    "/usr/lib/site-packages",
    "/env/site-packages/pip/_vendor",
    "/env/site-packages",
    "site-packages/pip",
    "site-packages",
    "/pip/env/site-packages/pip",
    "/pip/env/site-packages",
    "/",
    "/tmp/pip-build-env/site" }

EmptySite == [d \in Dirs |-> <<>>]

\* a file system in which only directory d holds distributions
OneDir(d, l) == [EmptySite EXCEPT ![d] = l]

\* pkg_resources is first imported by the block (UnsetList), or was imported
\* before it while sys.path was p
Prior(fresh, p) == IF fresh THEN UnsetList ELSE p

\* environments that vary the command line
EnvArgs ==
    {[argv |-> a, sys_path |-> p, site |-> OneDir("/env/site-packages", l), prior |-> q] :
        a \in SeqsUpTo(ArgTokens, MaxArgs),
        p \in {<<>>, <<"/env/site-packages/pip/_vendor">>},
        l \in {<<>>, <<"tensorflow-gpu">>},
        q \in {UnsetList}}

\* environments that vary the module search path
EnvPaths ==
    {[argv |-> a, sys_path |-> p, site |-> [OneDir(d1, <<"tensorflow-gpu">>) EXCEPT ![d2] = l2],
      prior |-> Prior(fresh, p)] :
        a \in {<<"setup.py", "install">>, <<"setup.py", "bdist_wheel">>},
        p \in SeqsUpTo(PathEntries, MaxPath),
        d1 \in Dirs,
        d2 \in Dirs, l2 \in {<<>>, <<"tf-nightly">>},
        fresh \in BOOLEAN}

\* environments that vary the installed distributions
EnvDists ==
    {[argv |-> a, sys_path |-> <<pd[1]>>, site |-> OneDir(pd[2], l),
      prior |-> Prior(fresh, <<pd[1]>>)] :
        a \in {<<"setup.py", "install">>, <<"setup.py", "bdist_wheel">>},
        pd \in {<<"/usr/lib/site-packages", "/usr/lib/site-packages">>,
                <<"/env/site-packages/pip/_vendor", "/env/site-packages">>},
        l \in SeqsUpTo(DistNames, MaxDists),
        fresh \in BOOLEAN}

\* environments that vary the search path pkg_resources was imported under,
\* with a name found in two directories in two letter cases
EnvImports ==
    {[argv |-> a, sys_path |-> p,
      site |-> [OneDir("/usr/lib/site-packages", l1) EXCEPT !["/tmp/pip-build-env/site"] = l2],
      prior |-> q] :
        a \in {<<"setup.py", "install">>, <<"setup.py", "bdist_wheel">>},
        p \in SeqsUpTo({"/usr/lib/site-packages", "/tmp/pip-build-env/site"}, MaxPath),
        l1 \in {<<"tensorflow-gpu">>, <<"TensorFlow-GPU">>},
        l2 \in {<<"tensorflow-gpu">>, <<"tf-nightly">>},
        q \in {UnsetList} \cup SeqsUpTo({"/usr/lib/site-packages", "/tmp/pip-build-env/site"}, 1)}

Environments == EnvArgs \cup EnvPaths \cup EnvDists \cup EnvImports

-----------------------------------------------------------------------------
(* The block, one action per statement                                       *)

Init ==
    /\ template \in Templates
    /\ \E env \in Environments :
          /\ argv = env.argv
          /\ sys_path = env.sys_path
          /\ site = env.site
          /\ working_set = IF env.prior = UnsetList THEN UnsetList
                           ELSE WorkingSet(env.site, env.prior)
    /\ import_queries = 0
    /\ pc = "import"
    /\ i = 1
    /\ k = 1
    /\ source_path = UnsetList
    /\ installed_dists = UnsetList
    /\ tf_req = Unset
    /\ install_req = UnsetList
    /\ error = NoError
    /\ assigns = 0
    /\ queries = 0
    /\ scans = 0

\* import pkg_resources; import sys.  The first import of pkg_resources
\* builds pkg_resources.working_set from sys.path, listing every entry, and
\* raises when the metadata cannot be read; a later import finds the module
\* in sys.modules
ImportPkgResources ==
    /\ pc = "import"
    /\ IF working_set # UnsetList
       THEN /\ pc' = "start"
            /\ UNCHANGED <<working_set, import_queries, error>>
       ELSE /\ import_queries' = import_queries + 1
            /\ \E ok \in BOOLEAN :
                 IF ok
                 THEN /\ working_set' = WorkingSet(site, sys_path)
                      /\ pc' = "start"
                      /\ UNCHANGED error
                 ELSE /\ error' = "QueryErrorAtImport"
                      /\ pc' = "failed"
                      /\ UNCHANGED working_set
    /\ UNCHANGED <<template, argv, sys_path, site, i, source_path, installed_dists,
                   k, tf_req, install_req, assigns, queries, scans>>

CheckArgv_AlwaysInspect ==
    /\ pc = "start"
    /\ pc' = IF template = "part_000" THEN "read" ELSE "marker"
    /\ UNCHANGED <<template, argv, sys_path, site, working_set, import_queries, i, source_path, installed_dists,
                   k, tf_req, install_req, error, assigns, queries, scans>>

\* if "bdist_wheel" in sys.argv:
CheckArgv ==
    /\ pc = "start"
    /\ pc' = IF In(WheelToken, argv) THEN "wheel"
             ELSE IF template = "part_000" THEN "read" ELSE "marker"
    /\ UNCHANGED <<template, argv, sys_path, site, working_set, import_queries, i, source_path, installed_dists,
                   k, tf_req, install_req, error, assigns, queries, scans>>

\* tf_req = "tensorflow"   (wheel branch)
WheelAssign ==
    /\ pc = "wheel"
    /\ tf_req' = WheelReq
    /\ assigns' = assigns + 1
    /\ pc' = "assemble"
    /\ UNCHANGED <<template, argv, sys_path, site, working_set, import_queries, i, source_path, installed_dists,
                   k, install_req, error, queries, scans>>

\* the slice bound of `path[: path.index("pip")]`; -1 stands for ValueError
PipIndex(path) == Find("pip", path)

MarkerTest_NoBreak ==
    /\ pc = "marker"
    /\ i <= Len(sys_path)
    /\ scans' = scans + 1
    /\ i' = i + 1
    /\ LET path == sys_path[i] IN
         IF StrContains(target_path, path)
         THEN source_path' = <<Slice(path, PipIndex(path))>>
         ELSE UNCHANGED source_path
    /\ UNCHANGED <<template, argv, sys_path, site, working_set, import_queries, pc, installed_dists, k, tf_req,
                   install_req, error, assigns, queries>>

\* one iteration of `for path in sys.path:` with its `if target_path in path:`
MarkerTest ==
    /\ pc = "marker"
    /\ i <= Len(sys_path)
    /\ scans' = scans + 1
    /\ LET path == sys_path[i] IN
         IF StrContains(target_path, path)
         THEN IF PipIndex(path) = -1
              THEN /\ error' = "ValueError"
                   /\ pc' = "failed"
                   /\ UNCHANGED <<source_path, i>>
              ELSE /\ source_path' = <<Slice(path, PipIndex(path))>>
                   /\ pc' = "query"
                   /\ UNCHANGED <<error, i>>
         ELSE /\ i' = i + 1
              /\ UNCHANGED <<source_path, pc, error>>
    /\ UNCHANGED <<template, argv, sys_path, site, working_set, import_queries, installed_dists, k, tf_req,
                   install_req, assigns, queries>>

MarkerElse_FirstOnly ==
    /\ pc = "marker"
    /\ i > Len(sys_path)
    /\ source_path' = IF sys_path = <<>> THEN <<>> ELSE <<sys_path[1]>>
    /\ pc' = "query"
    /\ UNCHANGED <<template, argv, sys_path, site, working_set, import_queries, i, installed_dists, k, tf_req,
                   install_req, error, assigns, queries, scans>>

\* the `else:` of the marker loop: source_path = sys.path
MarkerElse ==
    /\ pc = "marker"
    /\ i > Len(sys_path)
    /\ source_path' = sys_path
    /\ pc' = "query"
    /\ UNCHANGED <<template, argv, sys_path, site, working_set, import_queries, i, installed_dists, k, tf_req,
                   install_req, error, assigns, queries, scans>>

\* the entries the package-metadata query of setup.py.template is given
QueryPath == source_path

\* part_000: installed_dists = [d.project_name for d in pkg_resources.working_set];
\* the distributions are those listed when pkg_resources was imported
ReadWorkingSet ==
    /\ pc = "read"
    /\ installed_dists' = working_set
    /\ pc' = "scan"
    /\ UNCHANGED <<template, argv, sys_path, site, working_set, import_queries, i, source_path,
                   k, tf_req, install_req, error, assigns, queries, scans>>

Query_Consuming ==
    /\ pc = "query"
    /\ queries' = queries + 1
    /\ sys_path' = IF QueryPath = sys_path THEN <<>> ELSE sys_path
    /\ \E ok \in BOOLEAN :
         IF ok
         THEN /\ installed_dists' = WorkingSet(site, QueryPath)
              /\ pc' = "scan"
              /\ UNCHANGED error
         ELSE /\ error' = "QueryError"
              /\ pc' = "failed"
              /\ UNCHANGED installed_dists
    /\ UNCHANGED <<template, argv, site, working_set, import_queries, i, source_path, k, tf_req,
                   install_req, assigns, scans>>

\* installed_dists = [d.project_name for d in pkg_resources.WorkingSet(...)];
\* the query either returns a listing or raises
Query ==
    /\ pc = "query"
    /\ queries' = queries + 1
    /\ \E ok \in BOOLEAN :
         IF ok
         THEN /\ installed_dists' = WorkingSet(site, QueryPath)
              /\ pc' = "scan"
              /\ UNCHANGED error
         ELSE /\ error' = "QueryError"
              /\ pc' = "failed"
              /\ UNCHANGED installed_dists
    /\ UNCHANGED <<template, argv, sys_path, site, working_set, import_queries, i, source_path, k, tf_req,
                   install_req, assigns, scans>>

\* one iteration of `for d in [...]:` with its `if d in installed_dists:`
ScanTest ==
    /\ pc = "scan"
    /\ k <= Len(CandidatesOf(template))
    /\ LET d == CandidatesOf(template)[k] IN
         IF In(d, installed_dists)
         THEN /\ tf_req' = d
              /\ assigns' = assigns + 1
              /\ pc' = "assemble"
              /\ UNCHANGED k
         ELSE /\ k' = k + 1
              /\ UNCHANGED <<tf_req, assigns, pc>>
    /\ UNCHANGED <<template, argv, sys_path, site, working_set, import_queries, i, source_path, installed_dists,
                   install_req, error, queries, scans>>

ScanElse_NoDefault ==
    /\ pc = "scan"
    /\ k > Len(CandidatesOf(template))
    /\ pc' = "assemble"
    /\ UNCHANGED <<template, argv, sys_path, site, working_set, import_queries, i, source_path, installed_dists,
                   k, tf_req, install_req, error, assigns, queries, scans>>

\* the `else:` of the candidate loop: tf_req = "tensorflow"
ScanElse ==
    /\ pc = "scan"
    /\ k > Len(CandidatesOf(template))
    /\ tf_req' = Default
    /\ assigns' = assigns + 1
    /\ pc' = "assemble"
    /\ UNCHANGED <<template, argv, sys_path, site, working_set, import_queries, i, source_path, installed_dists,
                   k, install_req, error, queries, scans>>

\* install_req = [...]; reading an unassigned tf_req raises NameError
Assemble ==
    /\ pc = "assemble"
    /\ IF tf_req = Unset
       THEN /\ error' = "NameError"
            /\ pc' = "failed"
            /\ UNCHANGED install_req
       ELSE /\ install_req' = Manifest(template, tf_req)
            /\ pc' = "done"
            /\ UNCHANGED error
    /\ UNCHANGED <<template, argv, sys_path, site, working_set, import_queries, i, source_path, installed_dists,
                   k, tf_req, assigns, queries, scans>>

Next ==
    \/ ImportPkgResources
    \/ CheckArgv
    \/ WheelAssign
    \/ MarkerTest
    \/ MarkerElse
    \/ Query
    \/ ReadWorkingSet
    \/ ScanTest
    \/ ScanElse
    \/ Assemble

Spec == Init /\ [][Next]_vars

\* the block is run to its end by a single thread
FairSpec == Spec /\ WF_vars(Next)

TypeOK ==
    /\ template \in Templates
    /\ pc \in {"import", "start", "wheel", "marker", "query", "read", "scan", "assemble",
              "done", "failed"}
    /\ i \in 1..(Len(sys_path) + 1)
    /\ k \in 1..(Len(CandidatesOf(template)) + 1)
    /\ assigns \in 0..2
    /\ queries \in 0..2
    /\ import_queries \in 0..2

-----------------------------------------------------------------------------
(* Vocabulary of the properties                                              *)

\* the elements of a list
Names(l) == {l[n] : n \in 1..Len(l)}

\* the command line does not ask for a wheel
Direct == "bdist_wheel" \notin Names(argv)

\* tf_req has been chosen
Resolved == pc \in {"assemble", "done"}

\* the preference order of the specification
PreferenceOrder ==
    <<"tf-nightly-gpu", "tf-nightly", "tf-nightly-cpu", "tensorflow-gpu", "tensorflow-cpu">>

\* the positions of PreferenceOrder whose name is in the installed listing
PresentRanks == {n \in 1..Len(PreferenceOrder) : PreferenceOrder[n] \in Names(installed_dists)}

\* the names of the TensorFlow family
Family == Names(PreferenceOrder) \cup {"tensorflow"}

\* the name of a specifier `<name>>=<version>`
SpecName(s) == Slice(s, Find(">=", s))

\* the marker of the specification: site-packages followed by the pip segment
Marker == "site-packages/pip"

\* the positions of the search-path entries that contain the marker
MarkerEntries == {n \in 1..Len(sys_path) : Find(Marker, sys_path[n]) # -1}

\* the first search-path entry that contains the marker
FirstMarkerEntry == sys_path[CHOOSE n \in MarkerEntries : \A m \in MarkerEntries : n <= m]

\* the prefix of an entry that ends immediately before the marker's pip segment
SiteDirOf(path) == Slice(path, Find(Marker, path) + Len("site-packages/"))

\* the marker search of setup.py.template is over
PastMarker == template = "setup.py.template" /\ Direct /\ pc \in {"query", "scan", "assemble", "done"}

\* the package-metadata query of setup.py.template has returned
PastQuery == template = "setup.py.template" /\ Direct /\ pc \in {"scan", "assemble", "done"}

-----------------------------------------------------------------------------
(* Properties                                                                *)

\* C1: in direct mode, given a listing with two or more of the five
\* candidate names, the block requires the one that is earliest in the
\* preference order, whatever the order and the repetitions of the listing.
\* Violated by part_000, whose tf_dists lacks tf-nightly-cpu and
\* tensorflow-cpu: the listing <<"tf-nightly-cpu", "tensorflow-gpu">> resolves
\* to tensorflow-gpu.
C1_EarliestPreferredWins ==
    (Direct /\ Resolved /\ Cardinality(PresentRanks) >= 2)
        => \E n \in PresentRanks :
               tf_req = PreferenceOrder[n] /\ \A m \in PresentRanks : n <= m

\* C2: in direct mode, given a listing with exactly one of the five candidate
\* names and any other names, the block requires that candidate.  Violated by
\* part_000: a listing whose only candidate is tf-nightly-cpu or
\* tensorflow-cpu resolves to tensorflow.
C2_SingleCandidateWins ==
    (Direct /\ Resolved /\ Cardinality(PresentRanks) = 1)
        => \E n \in PresentRanks : tf_req = PreferenceOrder[n]

\* C3: when bdist_wheel is on the command line the requirement is
\* "tensorflow", whatever is installed and whatever the search path is.
C3_WheelIsGeneric ==
    (~Direct /\ Resolved) => tf_req = "tensorflow"

\* a wheel build in an environment whose search path holds tensorflow-gpu
C3_Witness ==
    /\ ~Direct /\ pc = "done"
    /\ sys_path = <<"/usr/lib/site-packages">>
    /\ site["/usr/lib/site-packages"] = <<"tensorflow-gpu">>
    /\ tf_req = "tensorflow"

\* C4: in direct mode, when no candidate name is in the listing, the
\* requirement is "tensorflow".
C4_NoCandidateIsGeneric ==
    (Direct /\ Resolved /\ PresentRanks = {}) => tf_req = "tensorflow"

\* the listing holds only tensorflow itself and an unrelated package
C4_Witness ==
    /\ Direct /\ pc = "done"
    /\ installed_dists = <<"numpy", "tensorflow">>
    /\ tf_req = "tensorflow"

\* C5: the assembled install_req has exactly one specifier of the TensorFlow
\* family.
C5_OneFamilySpecifier ==
    pc = "done" =>
        Cardinality({n \in 1..Len(install_req) : SpecName(install_req[n]) \in Family}) = 1

\* a manifest assembled after an accelerated candidate was found
C5_Witness ==
    /\ pc = "done" /\ Direct
    /\ tf_req = "tensorflow-gpu"
    /\ \E n \in 1..Len(install_req) : install_req[n] = "tensorflow-gpu>=2.0.0"

\* C6: the assembled install_req is always the same six specifiers in the
\* same order, the third being the resolved name with the bound >=2.0.0.
\* Violated by part_000, whose install_req has four specifiers with other
\* bounds.
C6_FixedManifest ==
    pc = "done" =>
        /\ Len(install_req) = 6
        /\ install_req[1] = "nengo>=3.0.0"
        /\ install_req[2] = "numpy>=1.16.0"
        /\ SpecName(install_req[3]) = tf_req
        /\ install_req[3] = tf_req \o ">=2.0.0"
        /\ install_req[4] = "jinja2>=2.10.1"
        /\ install_req[5] = "packaging>=20.0"
        /\ install_req[6] = "progressbar2>=3.39.0"

\* C7: in direct mode, when a search-path entry contains the marker, the
\* listing is taken from that entry cut immediately before the marker's pip
\* segment, for every entry text.
C7_TruncatedAtMarker ==
    /\ (PastMarker /\ MarkerEntries # {}) => source_path = <<SiteDirOf(FirstMarkerEntry)>>
    /\ (PastQuery /\ MarkerEntries # {}) =>
           installed_dists = WorkingSet(site, <<SiteDirOf(FirstMarkerEntry)>>)

\* C8: in direct mode, when no search-path entry contains the marker, the
\* listing is taken from the whole search path, entries and order unchanged;
\* an empty search path gives an empty listing and "tensorflow".
C8_FallbackWholePath ==
    /\ (PastMarker /\ MarkerEntries = {}) => source_path = sys_path
    /\ (PastQuery /\ MarkerEntries = {}) => installed_dists = WorkingSet(site, sys_path)
    /\ (PastQuery /\ sys_path = <<>>) => installed_dists = <<>>
    /\ (PastQuery /\ sys_path = <<>> /\ Resolved) => tf_req = "tensorflow"

\* two entries without the marker, one of them with "pip" in its text, both
\* contribute to the listing in search-path order
C8_Witness ==
    /\ PastQuery /\ pc = "done"
    /\ sys_path = <<"/tmp/pip-build-env/site", "/usr/lib/site-packages">>
    /\ source_path = sys_path
    /\ installed_dists = <<"tf-nightly", "tensorflow-gpu">>
    /\ tf_req = "tf-nightly"

\* C9: a candidate is required only if the listing has an element equal to
\* it; names that contain it, are a prefix of it or differ in a character do
\* not count.
C9_ExactNameMatch ==
    (Direct /\ Resolved /\ tf_req \in Names(PreferenceOrder)) => tf_req \in Names(installed_dists)

\* the listing holds a candidate in another letter case and the prefix
\* "tensorflow" of a candidate; no candidate is required
C9_Witness ==
    /\ Direct /\ pc = "done"
    /\ installed_dists = <<"TensorFlow-GPU", "tensorflow">>
    /\ tf_req = "tensorflow"

\* the state part of C10
C10_Defined ==
    /\ error \in {NoError, "QueryError", "QueryErrorAtImport"}
    /\ pc = "failed" <=> error \in {"QueryError", "QueryErrorAtImport"}
    /\ Resolved => (assigns = 1 /\ tf_req \in Family)
    /\ ~Resolved => (assigns = 0 /\ tf_req = Unset)
    /\ pc = "done" <=> install_req # UnsetList
    /\ pc = "done" => \E n \in 1..Len(install_req) : SpecName(install_req[n]) = tf_req

\* C10: the block always ends; tf_req is assigned exactly once before
\* install_req is assembled, its value is "tensorflow" or a candidate, and
\* the only failures are those of a package-metadata query (that of the
\* first import of pkg_resources or that of WorkingSet(source_path)).
C10_ResolutionTerminates ==
    /\ []C10_Defined
    /\ <>(pc = "done" \/ error \in {"QueryError", "QueryErrorAtImport"})

\* a run through the marker search, the query and the whole candidate scan
C10_Witness ==
    /\ pc = "done" /\ error = NoError
    /\ scans = 2 /\ queries = 1 /\ assigns = 1
    /\ k = Len(Candidates) + 1
    /\ tf_req = "tensorflow"

\* C11: no step of the block, in either build mode and with or without the
\* marker, changes the module search path, the command line or the installed
\* distributions; so they are after the run what they were before it.
C11_EnvironmentUnchanged ==
    [][argv' = argv /\ sys_path' = sys_path /\ site' = site]_vars

\* a finished direct run that fell back to the search path itself, which
\* still holds its two entries
C11_Witness ==
    /\ PastQuery /\ pc = "done"
    /\ MarkerEntries = {}
    /\ source_path = sys_path
    /\ Len(sys_path) = 2
    /\ queries = 1

\* the package-metadata queries issued so far, whoever issued them
MetadataQueries == queries + import_queries

\* C12 as stated: a wheel run never tests a search-path entry for the marker,
\* never issues a package-metadata query and cannot be stopped by one; a
\* direct run issues exactly one query, after source_path is bound and before
\* the candidate scan, and a failed query leaves no install_req.
C12_NoQueryInWheelMode ==
    /\ ~Direct => (scans = 0 /\ MetadataQueries = 0 /\ error = NoError)
    /\ (Direct /\ pc \in {"import", "start", "marker", "query"}) => MetadataQueries = 0
    /\ (Direct /\ pc \in {"scan", "assemble", "done"}) => MetadataQueries = 1
    /\ error # NoError => install_req = UnsetList

\* the state part of C12 as amended
C12_Order ==
    /\ import_queries <= 1
    /\ (import_queries = 1 /\ error # "QueryErrorAtImport") => working_set # UnsetList
    /\ ~Direct =>
          /\ scans = 0 /\ queries = 0 /\ error \in {NoError, "QueryErrorAtImport"}
          /\ source_path = UnsetList /\ installed_dists = UnsetList
    /\ template = "part_000" => (queries = 0 /\ scans = 0 /\ error # "QueryError")
    /\ (Direct /\ pc \in {"import", "start", "marker", "query", "read"}) =>
          /\ queries = 0 /\ k = 1 /\ assigns = 0
          /\ installed_dists = UnsetList
    /\ (Direct /\ pc = "query") => source_path # UnsetList
    /\ (Direct /\ template = "setup.py.template" /\ pc \in {"scan", "assemble", "done"}) =>
          queries = 1
    /\ error = "QueryError" =>
          /\ pc = "failed" /\ queries = 1
          /\ tf_req = Unset /\ install_req = UnsetList
    /\ error = "QueryErrorAtImport" =>
          /\ pc = "failed" /\ import_queries = 1 /\ queries = 0 /\ scans = 0
          /\ tf_req = Unset /\ install_req = UnsetList

\* C12 as amended: a wheel run never tests a search-path entry for the marker
\* and never issues the WorkingSet(source_path) query; the only query it can
\* issue is the listing of sys.path by the first import of pkg_resources, and
\* unless that one fails it ends with "tensorflow".  A direct run of
\* setup.py.template issues the WorkingSet(source_path) query exactly once,
\* after source_path is bound and before the candidate scan; part_000 issues
\* no query of its own.  A failed query ends the block without an install_req.
C12_InspectionOnlyInDirectMode ==
    /\ []C12_Order
    /\ [](~Direct => <>((pc = "done" /\ tf_req = "tensorflow") \/ error = "QueryErrorAtImport"))
    /\ [][error # NoError => (error' = error /\ install_req' = UnsetList)]_vars

\* a direct run whose WorkingSet(source_path) query failed after the import
\* listed sys.path and the marker search bound source_path
C12_Witness ==
    /\ Direct /\ template = "setup.py.template"
    /\ pc = "failed" /\ error = "QueryError"
    /\ scans = 1 /\ queries = 1 /\ import_queries = 1
    /\ source_path = <<"/env/site-packages/">>
    /\ install_req = UnsetList

\* the requirement that a listing alone calls for
RequiredBy(listing) ==
    LET ranks == {n \in 1..Len(PreferenceOrder) : PreferenceOrder[n] \in Names(listing)}
    IN  IF ranks = {} THEN "tensorflow"
        ELSE PreferenceOrder[CHOOSE n \in ranks : \A m \in ranks : n <= m]

\* C13: when search-path entries contain the marker, source_path is a
\* one-element list holding a prefix of the first such entry, cut before a
\* "pip"; the listing and the requirement come from that directory alone,
\* whatever later marker entries and entries without the marker hold.
C13_FirstMarkerEntryOnly ==
    /\ (PastMarker /\ MarkerEntries # {}) =>
          /\ Len(source_path) = 1
          /\ Slice(FirstMarkerEntry, Len(source_path[1]) + 3) = source_path[1] \o "pip"
          /\ Len(source_path[1]) + 3 <= Len(FirstMarkerEntry)
    /\ (PastQuery /\ MarkerEntries # {}) =>
          installed_dists = WorkingSet(site, <<source_path[1]>>)
    /\ (PastQuery /\ Resolved /\ MarkerEntries # {}) =>
          tf_req = RequiredBy(WorkingSet(site, <<source_path[1]>>))

\* two marker entries: the directory of the second holds the preferred
\* tf-nightly, the directory of the first holds tensorflow-gpu, which is
\* required
C13_Witness ==
    /\ PastQuery /\ pc = "done"
    /\ sys_path = <<"/env/site-packages/pip/_vendor", "site-packages/pip">>
    /\ site["/env/site-packages"] = <<"tensorflow-gpu">>
    /\ site["site-packages"] = <<"tf-nightly">>
    /\ source_path = <<"/env/site-packages/">>
    /\ tf_req = "tensorflow-gpu"

\* the wheel branch was taken
WheelTaken == pc = "wheel" \/ (pc \in {"assemble", "done"} /\ installed_dists = UnsetList)

\* the test of the command line has been made
PastCheck == pc \notin {"import", "start"} /\ error # "QueryErrorAtImport"

\* C14: the wheel branch is taken exactly when some element of the command
\* line equals bdist_wheel, at any position; an element that only contains
\* that text, or an empty command line, takes the direct branch.
C14_WheelIffExactToken ==
    PastCheck => (WheelTaken <=> \E n \in 1..Len(argv) : argv[n] = "bdist_wheel")

\* the token in last position, after an argument that only starts with it
C14_Witness ==
    /\ argv = <<"bdist_wheels", "bdist_wheel">>
    /\ pc = "done" /\ queries = 0 /\ scans = 0
    /\ tf_req = "tensorflow"

====
